---- MODULE Spec2Model ----
(***************************************************************************)
(* Pool memory allocator (class MemoryManager).                            *)
(*                                                                         *)
(* Memory is modelled byte by byte: mem maps every byte address of every   *)
(* region reserved with new char[] to its value.  Pointer-sized slots are  *)
(* eight bytes, little endian.  An access outside the reserved regions is  *)
(* undefined behaviour; its outcome is the nondeterministic value ub.      *)
(***************************************************************************)
EXTENDS Integers, Naturals, Sequences, FiniteSets, TLC

VARIABLES
    mNumBlocksPerPool,  \* MemoryManager::mNumBlocksPerPool
    mPool,              \* MemoryManager::mPool : block size -> region base
    mem,                \* heap bytes of the reserved regions
    heapTop,            \* next address operator new[] hands out
    heapFill,           \* content of uninitialised heap memory
    types,              \* sizeof(T) of the types the caller uses
    ref,                \* the caller's pointer variables (T* ...)
    status,             \* "running", "crashed" (access fault), "undefined"
    lastCall,           \* per size: the latest Allocate or Free call
    onlyAllocs,         \* no Free has been called since construction
    got,                \* per size: results of the Allocate calls so far
    freed,              \* per size: blocks freed and not handed out since,
                        \* latest first
    released,           \* address -> number of delete[] calls it was given
    held,               \* per size: blocks handed out and not freed since
    thread              \* per caller: where it stands in a call it makes
                        \* step by step, and the locals of that call

vars == <<mNumBlocksPerPool, mPool, mem, heapTop, heapFill, types, ref, status,
          lastCall, onlyAllocs, got, freed, released, held, thread>>

----------------------------------------------------------------------------
(* Bounds of the model *)

\* blocksPerPool handed to the constructor
NumBlocks == 2
\* number of pointer variables the caller holds
NumRefs == 2

(* Program constants *)

NUMBITSPERBYTE == 8
\* sizeof(void*) == sizeof(uintptr_t)
PtrSize == 8
\* exponents of the default pools, 2^3 .. 2^5
MinExponent == 3
MaxExponent == 5
NULL == 0

\* sizeof(Dummy): the type the caller of Main.cpp allocates and frees
DummySize == 16
\* size of a second type, one that has no default pool
OtherSize == 24
TypeSizes == {DummySize, OtherSize}
\* a blocksPerPool that does not fit the uint16_t parameter of InitializePool
ManyBlocks == 65537
\* values of blocksPerPool handed to the constructor
BlockCounts == {0, NumBlocks, ManyBlocks}
\* size of a type that is no multiple of the pointer size (three ints)
UnalignedSize == 12
\* size of a type of 256 pointers or more (char[2048])
HugeSize == 2048
OddSizes == {UnalignedSize, HugeSize}

Refs == 1..NumRefs

(* Heap model *)

\* first address handed out by operator new[]
HeapBase == 4096
\* alignment of operator new[]
HeapAlign == 16
\* bytes of allocator header between two heap chunks
HeapHeader == 16
\* contents of uninitialised heap memory: 0 (fresh page) or 0xCD (debug fill)
GarbageBytes == {0, 205}
\* a pointer value that points nowhere near the heap (upper bytes non-zero)
WildPtr == 16777216
WildByte == 205

\* outcomes of an access outside the reserved regions: an access fault, or
\* the access reads bytes that are all zero, or bytes that are all set
UB == {"fault", "zeros", "ones"}
UBBit(ub) == IF ub = "ones" THEN 1 ELSE 0
UBWord(ub) == IF ub = "ones" THEN WildPtr ELSE NULL

Pow2(n) == IF n = 0 THEN 1 ELSE
           IF n = 1 THEN 2 ELSE
           IF n = 2 THEN 4 ELSE
           IF n = 3 THEN 8 ELSE
           IF n = 4 THEN 16 ELSE
           IF n = 5 THEN 32 ELSE
           IF n = 6 THEN 64 ELSE 128

AlignUp(a, n) == ((a + n - 1) \div n) * n

----------------------------------------------------------------------------
(* Byte and word access *)

Tracked(m, a, n) == \A k \in 0..(n - 1) : (a + k) \in DOMAIN m

\* byte k (little endian) of pointer value v
ByteOf(v, k) ==
    IF v = WildPtr THEN WildByte
    ELSE IF k = 0 THEN v % 256
    ELSE IF k = 1 THEN (v \div 256) % 256
    ELSE IF k = 2 THEN (v \div 65536) % 256
    ELSE 0

\* *(uintptr_t*)a
ReadWord(m, a) ==
    IF \E k \in 3..7 : m[a + k] # 0 THEN WildPtr
    ELSE m[a] + 256 * m[a + 1] + 65536 * m[a + 2]

\* *(uintptr_t*)a = v ; a write outside the regions leaves them as they are
WriteWord(m, a, v) ==
    IF Tracked(m, a, PtrSize)
    THEN [m EXCEPT ![a]     = ByteOf(v, 0), ![a + 1] = ByteOf(v, 1),
                   ![a + 2] = ByteOf(v, 2), ![a + 3] = ByteOf(v, 3),
                   ![a + 4] = ByteOf(v, 4), ![a + 5] = ByteOf(v, 5),
                   ![a + 6] = ByteOf(v, 6), ![a + 7] = ByteOf(v, 7)]
    ELSE m

WriteByte(m, a, b) ==
    IF a \in DOMAIN m THEN [m EXCEPT ![a] = b] ELSE m

\* (byte & (1 << shift)) != 0
BitSet(byte, shift) == (byte \div Pow2(shift)) % 2 = 1

\* byte | (1 << shift)
OrBit(byte, shift) == IF BitSet(byte, shift) THEN byte ELSE byte + Pow2(shift)

\* byte ^ (1 << shift)
XorBit(byte, shift) ==
    IF BitSet(byte, shift) THEN byte - Pow2(shift) ELSE byte + Pow2(shift)

----------------------------------------------------------------------------
(* Address arithmetic *)

\* unsigned int index = (p - first) / size, computed in 64-bit unsigned
\* arithmetic and truncated to 32 bits; given as index / 8 and index % 8.
\* For p < first the difference wraps to 2^64 - (first - p); the quotient is
\* found by long division on 16-bit digits.
BlockIndex(p, first, size) ==
    IF p >= first
    THEN [div8 |-> ((p - first) \div size) \div NUMBITSPERBYTE,
          mod8 |-> ((p - first) \div size) % NUMBITSPERBYTE]
    ELSE LET e  == first - p - 1
             d2 == 65535 - (e \div 65536)
             d3 == 65535 - (e % 65536)
             r0 == 65535 % size
             r1 == (r0 * 65536 + 65535) % size
             c2 == r1 * 65536 + d2
             c3 == (c2 % size) * 65536 + d3
             q2 == c2 \div size
             q3 == c3 \div size
         IN  [div8 |-> q2 * 8192 + (q3 \div NUMBITSPERBYTE),
              mod8 |-> q3 % NUMBITSPERBYTE]

\* lastElementPtr = firstElementPtr + (size / sizeof(void*)) * mNumBlocksPerPool
LastElementPtr(first, size, n) == first + PtrSize * ((size \div PtrSize) * n)

\* desiredByte = lastElementPtr + sizeof(void*) + index / NUMBITSPERBYTE
DesiredByte(last, idx) == last + PtrSize + idx.div8

\* shiftValue = NUMBITSPERBYTE - (index % NUMBITSPERBYTE) - 1
ShiftValue(idx) == NUMBITSPERBYTE - idx.mod8 - 1

----------------------------------------------------------------------------
(* MemoryManager::InitializePool *)

\* bytes of new char[(size * numBlocks) + sizeof(void*) + numBlocks / 8 + 1]
RegionBytes(size, numBlocks) ==
    (size * numBlocks) + PtrSize + (numBlocks \div NUMBITSPERBYTE) + 1

\* uint8_t stride = size / sizeof(void*)
Stride(size) == (size \div PtrSize) % 256

\* the for loop: *cur = cur + stride; cur += stride
RECURSIVE LinkBlocks(_, _, _, _, _)
LinkBlocks(m, cur, stride, iteration, numBlocks) ==
    IF iteration < numBlocks
    THEN LinkBlocks(WriteWord(m, cur, cur + PtrSize * stride),
                    cur + PtrSize * stride, stride, iteration + 1, numBlocks)
    ELSE [mem |-> m, cur |-> cur]

\* the pool, the heap and the registry after InitializePool(size, blocks);
\* g is the content of the fresh, uninitialised region
InitializePool(pool, m, top, size, blocks, g) ==
    LET numBlocks == blocks % 65536
        base   == top
        bytes  == RegionBytes(size, numBlocks)
        fresh  == [x \in (DOMAIN m) \cup (base..(base + bytes - 1)) |->
                      IF x \in DOMAIN m THEN m[x] ELSE g]
        stride == Stride(size)
        linked == LinkBlocks(fresh, base, stride, 1, numBlocks)
        ended  == WriteWord(linked.mem, linked.cur, NULL)
        headAt == linked.cur + PtrSize * stride
        done   == WriteWord(ended, headAt, base)
    IN  [mPool   |-> [s \in (DOMAIN pool) \cup {size} |->
                         IF s = size THEN base ELSE pool[s]],
         mem     |-> done,
         heapTop |-> AlignUp(base + bytes + HeapHeader, HeapAlign),
         \* a store past the end of the region (heap overflow)
         overrun |-> \/ ~Tracked(fresh, headAt, PtrSize)
                     \/ ~Tracked(fresh, linked.cur, PtrSize)]

\* mPool[size] : std::unordered_map::operator[] inserts a null entry
Lookup(pool, size) ==
    [s \in (DOMAIN pool) \cup {size} |-> IF s \in DOMAIN pool THEN pool[s] ELSE NULL]

----------------------------------------------------------------------------
(* MemoryManager::Allocate<T>, sizeof(T) = size *)

\* faulty variant: the exhaustion test is missing
PoolExhaustedUnchecked(head) == FALSE

\* if (*lastElementPtr == NULL) return nullptr
PoolExhausted(head) == head = NULL

\* *desiredByte |= 1 << (NUMBITSPERBYTE - index % NUMBITSPERBYTE - 1)
MarkAllocated(m, byteAt, shift) ==
    IF byteAt \in DOMAIN m THEN WriteByte(m, byteAt, OrBit(m[byteAt], shift)) ELSE m

\* faulty variant: the head is not advanced
PopFreeListStuck(m, last, next) == m

\* *lastElementPtr = *(uintptr_t*)firstFreeBlockAddressValue
PopFreeList(m, last, next) == WriteWord(m, last, next)

\* if (!mPool[dataTypeSize]) InitializePool(dataTypeSize, mNumBlocksPerPool)
EnsurePool(pool, m, top, n, size, g) ==
    LET looked == Lookup(pool, size)
    IN  IF looked[size] = NULL
        THEN InitializePool(looked, m, top, size, n, g)
        ELSE [mPool |-> looked, mem |-> m, heapTop |-> top, overrun |-> FALSE]

\* The rest of the call, init being the registry and heap after the pool
\* was looked up.  ub decides the outcome of an access outside the reserved
\* regions, should the call make one (wild).
AllocateIn(init, pool, m, top, n, size, ub) ==
    LET first  == init.mPool[size]
        last   == LastElementPtr(first, size, n)
        lastOk == Tracked(init.mem, last, PtrSize)
        head   == IF lastOk THEN ReadWord(init.mem, last) ELSE UBWord(ub)
        idx    == BlockIndex(head, first, size)
        byteAt == DesiredByte(last, idx)
        m1     == MarkAllocated(init.mem, byteAt, ShiftValue(idx))
        headOk == Tracked(m1, head, PtrSize)
        next   == IF headOk THEN ReadWord(m1, head) ELSE UBWord(ub)
        m2     == PopFreeList(m1, last, next)
        wild   == \/ init.overrun
                  \/ ~lastOk
                  \/ ~PoolExhausted(head) /\ (byteAt \notin DOMAIN init.mem \/ ~headOk)
    IN  IF wild /\ ub = "fault"
        THEN [mPool |-> pool, mem |-> m, heapTop |-> top, ret |-> NULL,
              path |-> "fault", wild |-> TRUE]
        ELSE IF PoolExhausted(head)
        THEN [mPool |-> init.mPool, mem |-> init.mem, heapTop |-> init.heapTop,
              ret |-> NULL, path |-> "exhausted", wild |-> wild]
        ELSE [mPool |-> init.mPool, mem |-> m2, heapTop |-> init.heapTop,
              ret |-> head, path |-> "allocated", wild |-> wild]

\* The whole call: registry, heap and result
AllocateCall(pool, m, top, n, size, g, ub) ==
    AllocateIn(EnsurePool(pool, m, top, n, size, g), pool, m, top, n, size, ub)

----------------------------------------------------------------------------
(* MemoryManager::Free<T>, sizeof(T) = size, p = *ppBlock *)

\* faulty variant: the null test is missing
NullPointerUnchecked(p) == FALSE

\* if (*ppBlock == nullptr) return
NullPointer(p) == p = NULL

\* faulty variant: the double-free test is missing
DoubleFreeUnchecked(byte, shift) == FALSE

\* if ((*desiredByte & (1 << shiftValue)) == 0) return
DoubleFree(byte, shift) == ~BitSet(byte, shift)

\* faulty variant: the bit is left set
MarkFreeKeep(m, byteAt, byte, shift) == m

\* *desiredByte ^= 1 << shiftValue
MarkFree(m, byteAt, byte, shift) == WriteByte(m, byteAt, XorBit(byte, shift))

\* faulty variant: the freed block is linked but does not become the head
PushFreeListNoHead(m, last, p, head) == WriteWord(m, p, head)

\* faulty variant: the freed block becomes the head but keeps its old link
PushFreeListNoLink(m, last, p, head) == WriteWord(m, last, p)

\* *(uintptr_t*)*ppBlock = *lastElementPtr ; *lastElementPtr = (uintptr_t)*ppBlock
PushFreeList(m, last, p, head) == WriteWord(WriteWord(m, p, head), last, p)

\* faulty variant: the caller's pointer is left as it is
InvalidateKeep(p) == p

\* *ppBlock = nullptr
Invalidate(p) == NULL

FreeCall(pool, m, n, size, p, ub) ==
    LET looked == Lookup(pool, size)
        first  == looked[size]
        last   == LastElementPtr(first, size, n)
        idx    == BlockIndex(p, first, size)
        byteAt == DesiredByte(last, idx)
        shift  == ShiftValue(idx)
        byteOk == byteAt \in DOMAIN m
        byte   == IF byteOk THEN m[byteAt] ELSE UBBit(ub) * Pow2(shift)
        m1     == MarkFree(m, byteAt, byte, shift)
        lastOk == Tracked(m1, last, PtrSize)
        head   == IF lastOk THEN ReadWord(m1, last) ELSE UBWord(ub)
        m2     == PushFreeList(m1, last, p, head)
        wild   == \/ ~byteOk
                  \/ ~DoubleFree(byte, shift) /\ (~lastOk \/ ~Tracked(m1, p, PtrSize))
    IN  IF NullPointer(p)
        THEN [mPool |-> pool, mem |-> m, ptr |-> p, path |-> "null", wild |-> FALSE]
        ELSE IF wild /\ ub = "fault"
        THEN [mPool |-> looked, mem |-> m, ptr |-> p, path |-> "fault", wild |-> TRUE]
        ELSE IF DoubleFree(byte, shift)
        THEN [mPool |-> looked, mem |-> m, ptr |-> p, path |-> "double", wild |-> wild]
        ELSE [mPool |-> looked, mem |-> m2, ptr |-> Invalidate(p), path |-> "freed",
              wild |-> wild]

----------------------------------------------------------------------------
(* MemoryManager::MemoryManager *)

EmptyMap == [x \in {} |-> NULL]

\* a caller that is in no call
Idle == [pc |-> "idle", head |-> NULL, next |-> NULL]

\* for (exponent = 3; exponent <= 5; exponent++) InitializePool(pow(2, exponent), n)
RECURSIVE Construct(_, _, _, _, _, _)
Construct(pool, m, top, exponent, n, g) ==
    IF exponent <= MaxExponent
    THEN LET made == InitializePool(pool, m, top, Pow2(exponent), n, g)
         IN  Construct(made.mPool, made.mem, made.heapTop, exponent + 1, n, g)
    ELSE [mPool |-> pool, mem |-> m, heapTop |-> top]

Constructed == [op |-> "Construct", ref |-> 0, arg |-> NULL, ret |-> NULL,
                path |-> "constructed", prev |-> "none"]

\* the state a call leaves the process in
After(c) == IF c.path = "fault" THEN "crashed"
            ELSE IF c.wild THEN "undefined" ELSE "running"

\* InitializePool stores past the end of a region it reserves for n blocks
ConstructOverrun(n) ==
    \E exponent \in MinExponent..MaxExponent :
        InitializePool(EmptyMap, EmptyMap, HeapBase, Pow2(exponent), n, NULL).overrun

\* the state after MemoryManager(n), for a caller that uses the types of
\* the sizes in ts through the pointer variables rs
ConstructorWith(ts, rs, n) ==
    \E g \in GarbageBytes, ub \in UB :
        LET built == Construct(EmptyMap, EmptyMap, HeapBase, MinExponent, n, g)
        IN  /\ mNumBlocksPerPool = n
            /\ mPool = built.mPool
            /\ mem = built.mem
            /\ heapTop = built.heapTop
            /\ heapFill = g
            /\ types = ts
            /\ ref = [r \in rs |-> NULL]
            /\ status = After([path |-> IF ConstructOverrun(n) THEN ub ELSE "zeros",
                               wild |-> ConstructOverrun(n)])
            /\ lastCall = [s \in ts |-> Constructed]
            /\ onlyAllocs = TRUE
            /\ got = [s \in ts |-> <<>>]
            /\ freed = [s \in ts |-> <<>>]
            /\ released = EmptyMap
            /\ held = [s \in ts |-> {}]
            /\ thread = [r \in rs |-> Idle]

\* the same for MemoryManager(NumBlocks)
Constructor(ts, rs) == ConstructorWith(ts, rs, NumBlocks)

Range(seq) == {seq[i] : i \in 1..Len(seq)}

\* the registry, the heap and the results so far after one more Allocate
Took(call, rets) ==
    [mPool |-> call.mPool, mem |-> call.mem, heapTop |-> call.heapTop,
     rets |-> Append(rets, call.ret)]

\* for (index = 0; index < k; index++) ptr[index] = Allocate<T>()
RECURSIVE AllocateTimes(_, _, _, _, _)
AllocateTimes(c, n, size, g, k) ==
    IF k = 0 THEN c
    ELSE AllocateTimes(Took(AllocateCall(c.mPool, c.mem, c.heapTop, n, size, g,
                                         "zeros"), c.rets),
                       n, size, g, k - 1)

\* the state after construction and NumBlocks calls of Allocate<Dummy>(),
\* their results kept in the pointer variables rs: the pool is exhausted
Drained(rs) ==
    \E g \in GarbageBytes :
        LET built == Construct(EmptyMap, EmptyMap, HeapBase, MinExponent, NumBlocks, g)
            all   == AllocateTimes([mPool |-> built.mPool, mem |-> built.mem,
                                    heapTop |-> built.heapTop, rets |-> <<>>],
                                   NumBlocks, DummySize, g, NumBlocks)
        IN  /\ mNumBlocksPerPool = NumBlocks
            /\ mPool = all.mPool
            /\ mem = all.mem
            /\ heapTop = all.heapTop
            /\ heapFill = g
            /\ types = {DummySize}
            /\ ref = [r \in rs |-> IF r <= NumBlocks THEN all.rets[r] ELSE NULL]
            /\ status = "running"
            /\ lastCall = [s \in {DummySize} |->
                     [op |-> "Allocate", ref |-> NumBlocks, arg |-> NULL,
                      ret |-> all.rets[NumBlocks], path |-> "allocated",
                      prev |-> IF NumBlocks > 1 THEN "allocated" ELSE "constructed"]]
            /\ onlyAllocs = TRUE
            /\ got = [s \in {DummySize} |-> all.rets]
            /\ freed = [s \in {DummySize} |-> <<>>]
            /\ released = EmptyMap
            /\ held = [s \in {DummySize} |-> Range(all.rets)]
            /\ thread = [r \in rs |-> Idle]

----------------------------------------------------------------------------
(* MemoryManager::~MemoryManager *)

\* faulty variant: only the first entry of the registry is released
DeleteArraysFirst(pool) ==
    LET bases == {pool[s] : s \in DOMAIN pool} \ {NULL}
    IN  [b \in {x \in bases : \A y \in bases : x <= y} |-> 1]

\* for (iter = mPool.begin(); iter != mPool.end(); ++iter) delete[] iter->second
\* the delete[] calls the loop makes: address -> number of calls.  delete[]
\* of a null pointer does nothing.
DeleteArrays(pool) ==
    LET bases == {pool[s] : s \in DOMAIN pool} \ {NULL}
    IN  [b \in bases |-> Cardinality({s \in DOMAIN pool : pool[s] = b})]

\* the bytes new char[] reserved at the addresses in bases: the heap keeps
\* HeapHeader untracked bytes between two regions, so a region is the run of
\* tracked bytes that starts at its base
RECURSIVE RegionFrom(_, _)
RegionFrom(m, a) == IF a \in DOMAIN m THEN {a} \cup RegionFrom(m, a + 1) ELSE {}

\* the heap after the delete[] calls in dels
Unreserve(m, dels) ==
    LET gone == UNION {RegionFrom(m, b) : b \in DOMAIN dels}
    IN  [a \in (DOMAIN m) \ gone |-> m[a]]

----------------------------------------------------------------------------
(* The caller *)

\* results of the Allocate calls, the last entry standing for all calls
\* after the (mNumBlocksPerPool + 2)-th
Record(seq, ret) ==
    IF Len(seq) < mNumBlocksPerPool + 2 THEN Append(seq, ret)
    ELSE [seq EXCEPT ![Len(seq)] = ret]

\* seq without the entries equal to a
Without(seq, a) == SelectSeq(seq, LAMBDA x : x # a)

\* the outcomes of Allocate<T>() in the current state
AllocateOutcomes(size) ==
    LET z == AllocateCall(mPool, mem, heapTop, mNumBlocksPerPool, size,
                          heapFill, "zeros")
    IN  IF z.wild
        THEN {AllocateCall(mPool, mem, heapTop, mNumBlocksPerPool, size,
                           heapFill, ub) : ub \in UB}
        ELSE {z}

\* the outcomes of Free<T>(&pp), *pp = p, in the current state
FreeOutcomes(size, p) ==
    LET z == FreeCall(mPool, mem, mNumBlocksPerPool, size, p, "zeros")
    IN  IF z.wild
        THEN {FreeCall(mPool, mem, mNumBlocksPerPool, size, p, ub) : ub \in UB}
        ELSE {z}

\* ref[r] = memoryManager->Allocate<T>()
Allocate(size, r) ==
    \E c \in AllocateOutcomes(size) :
            /\ status = "running"
            /\ lastCall' = [lastCall EXCEPT ![size] =
                     [op |-> "Allocate", ref |-> r, arg |-> NULL, ret |-> c.ret,
                      path |-> c.path, prev |-> lastCall[size].path]]
            /\ status' = After(c)
            /\ mPool' = c.mPool
            /\ mem' = c.mem
            /\ heapTop' = c.heapTop
            /\ ref' = IF c.path = "fault" THEN ref ELSE [ref EXCEPT ![r] = c.ret]
            /\ got' = IF onlyAllocs /\ c.path # "fault"
                      THEN [got EXCEPT ![size] = Record(got[size], c.ret)]
                      ELSE got
            /\ freed' = IF c.path = "allocated"
                        THEN [freed EXCEPT ![size] = Without(freed[size], c.ret)]
                        ELSE freed
            /\ held' = IF c.path = "allocated"
                       THEN [held EXCEPT ![size] = @ \cup {c.ret}]
                       ELSE held
            /\ UNCHANGED <<mNumBlocksPerPool, heapFill, types, onlyAllocs, released,
                           thread>>

\* memoryManager->Free(&ref[r])
Free(size, r) ==
    \E c \in FreeOutcomes(size, ref[r]) :
            /\ status = "running"
            /\ lastCall' = [lastCall EXCEPT ![size] =
                     [op |-> "Free", ref |-> r, arg |-> ref[r], ret |-> c.ptr,
                      path |-> c.path, prev |-> lastCall[size].path]]
            /\ status' = After(c)
            /\ mPool' = c.mPool
            /\ mem' = c.mem
            /\ ref' = [ref EXCEPT ![r] = c.ptr]
            /\ onlyAllocs' = FALSE
            /\ got' = [s \in DOMAIN got |-> <<>>]
            /\ freed' = IF c.path = "freed"
                        THEN [freed EXCEPT ![size] =
                                 <<ref[r]>> \o Without(freed[size], ref[r])]
                        ELSE freed
            /\ held' = IF c.path = "freed"
                       THEN [held EXCEPT ![size] = @ \ {ref[r]}]
                       ELSE held
            /\ UNCHANGED <<mNumBlocksPerPool, heapTop, heapFill, types, released,
                           thread>>

\* Dummy* d0 = ptr[i] : a second pointer to the same block
Copy(from, to) ==
    /\ status = "running"
    /\ from # to
    /\ ref[from] # ref[to]
    /\ ref' = [ref EXCEPT ![to] = ref[from]]
    /\ UNCHANGED <<mNumBlocksPerPool, mPool, mem, heapTop, heapFill, types,
                   status, lastCall, onlyAllocs, got, freed, released, held,
                   thread>>

\* delete memoryManager
Destroy ==
    /\ status = "running"
    /\ status' = "destroyed"
    /\ released' = DeleteArrays(mPool)
    /\ mem' = Unreserve(mem, DeleteArrays(mPool))
    /\ mPool' = EmptyMap
    /\ UNCHANGED <<mNumBlocksPerPool, heapTop, heapFill, types, ref,
                   lastCall, onlyAllocs, got, freed, held, thread>>

Next ==
    \/ \E size \in types, r \in DOMAIN ref : Allocate(size, r)
    \/ \E size \in types, r \in DOMAIN ref : Free(size, r)
    \/ \E from \in DOMAIN ref, to \in DOMAIN ref : Copy(from, to)

\* the caller of Main.cpp: one type (Dummy), several pointers to its blocks
Init == Constructor({DummySize}, Refs)

Spec == Init /\ [][Next]_vars

\* a caller with two types of different sizes and one pointer variable
OneRef == {1}
InitSizes == Constructor(TypeSizes, OneRef)

\* with one pointer variable there is nothing to copy
NextSizes ==
    \/ \E size \in types, r \in DOMAIN ref : Allocate(size, r)
    \/ \E size \in types, r \in DOMAIN ref : Free(size, r)

SpecSizes == InitSizes /\ [][NextSizes]_vars

\* the caller of Main.cpp after TEST 1 has emptied the pool of Dummy
InitDrained == Drained(Refs)

SpecDrained == InitDrained /\ [][Next]_vars

\* a caller with a type of 12 bytes and one of 2048 bytes
InitAddressing == Constructor(OddSizes, OneRef)

SpecAddressing == InitAddressing /\ [][NextSizes]_vars

----------------------------------------------------------------------------
(* Callers on several threads.  Allocate and Free take no lock, so the     *)
(* loads and stores of two calls interleave; each statement that reads or  *)
(* writes the pool is a step.  Each thread r has its pointer variable      *)
(* ref[r]; the pool of the type exists.                                    *)

HeadSlot(size) == LastElementPtr(mPool[size], size, mNumBlocksPerPool)

\* the steps that leave the bookkeeping of whole calls alone
Stepwise == UNCHANGED <<mNumBlocksPerPool, mPool, heapTop, heapFill, types, status,
                        lastCall, onlyAllocs, got, freed, released, held>>

\* Allocate, line 112-120: if (*lastElementPtr == NULL) return nullptr;
\* firstFreeBlockAddressValue = *lastElementPtr
AllocateRead(size, t) ==
    /\ status = "running"
    /\ thread[t].pc = "idle"
    /\ LET head == ReadWord(mem, HeadSlot(size))
       IN  IF PoolExhausted(head)
           THEN /\ ref' = [ref EXCEPT ![t] = NULL]
                /\ UNCHANGED thread
           ELSE /\ thread' = [thread EXCEPT ![t] = [pc |-> "mark", head |-> head,
                                                   next |-> NULL]]
                /\ UNCHANGED ref
    /\ UNCHANGED mem
    /\ Stepwise

\* Allocate, line 123-125: *desiredByte |= 1 << ...
AllocateMark(size, t) ==
    /\ status = "running"
    /\ thread[t].pc = "mark"
    /\ LET idx == BlockIndex(thread[t].head, mPool[size], size)
       IN  mem' = MarkAllocated(mem, DesiredByte(HeadSlot(size), idx), ShiftValue(idx))
    /\ thread' = [thread EXCEPT ![t].pc = "link"]
    /\ UNCHANGED ref
    /\ Stepwise

\* Allocate, line 137-140: firstFreeBlockAddressValue = *(uintptr_t*)temp
AllocateLink(size, t) ==
    /\ status = "running"
    /\ thread[t].pc = "link"
    /\ thread' = [thread EXCEPT ![t].pc = "pop",
                                ![t].next = ReadWord(mem, thread[t].head)]
    /\ UNCHANGED <<mem, ref>>
    /\ Stepwise

\* Allocate, line 145-151: *lastElementPtr = firstFreeBlockAddressValue;
\* return newValueAddress
AllocatePop(size, t) ==
    /\ status = "running"
    /\ thread[t].pc = "pop"
    /\ mem' = PopFreeList(mem, HeadSlot(size), thread[t].next)
    /\ ref' = [ref EXCEPT ![t] = thread[t].head]
    /\ thread' = [thread EXCEPT ![t] = Idle]
    /\ Stepwise

\* Free, line 162-188: the null test and the double-free test
FreeTest(size, t) ==
    /\ status = "running"
    /\ thread[t].pc = "idle"
    /\ LET idx  == BlockIndex(ref[t], mPool[size], size)
           byte == mem[DesiredByte(HeadSlot(size), idx)]
       IN  IF NullPointer(ref[t]) THEN UNCHANGED thread
           ELSE IF DoubleFree(byte, ShiftValue(idx)) THEN UNCHANGED thread
           ELSE thread' = [thread EXCEPT ![t].pc = "clear"]
    /\ UNCHANGED <<mem, ref>>
    /\ Stepwise

\* Free, line 190: *desiredByte ^= 1 << shiftValue
FreeClear(size, t) ==
    /\ status = "running"
    /\ thread[t].pc = "clear"
    /\ LET idx    == BlockIndex(ref[t], mPool[size], size)
           byteAt == DesiredByte(HeadSlot(size), idx)
       IN  mem' = MarkFree(mem, byteAt, mem[byteAt], ShiftValue(idx))
    /\ thread' = [thread EXCEPT ![t].pc = "push"]
    /\ UNCHANGED ref
    /\ Stepwise

\* Free, line 193: *(uintptr_t*)*ppBlock = *lastElementPtr
FreeLink(size, t) ==
    /\ status = "running"
    /\ thread[t].pc = "push"
    /\ mem' = WriteWord(mem, ref[t], ReadWord(mem, HeadSlot(size)))
    /\ thread' = [thread EXCEPT ![t].pc = "head"]
    /\ UNCHANGED ref
    /\ Stepwise

\* Free, line 196-206: *lastElementPtr = (uintptr_t)*ppBlock; *ppBlock = nullptr
FreeHead(size, t) ==
    /\ status = "running"
    /\ thread[t].pc = "head"
    /\ mem' = WriteWord(mem, HeadSlot(size), ref[t])
    /\ ref' = [ref EXCEPT ![t] = Invalidate(ref[t])]
    /\ thread' = [thread EXCEPT ![t] = Idle]
    /\ Stepwise

NextThreads ==
    \/ \E size \in types, t \in DOMAIN ref : AllocateRead(size, t)
    \/ \E size \in types, t \in DOMAIN ref : AllocateMark(size, t)
    \/ \E size \in types, t \in DOMAIN ref : AllocateLink(size, t)
    \/ \E size \in types, t \in DOMAIN ref : AllocatePop(size, t)
    \/ \E size \in types, t \in DOMAIN ref : FreeTest(size, t)
    \/ \E size \in types, t \in DOMAIN ref : FreeClear(size, t)
    \/ \E size \in types, t \in DOMAIN ref : FreeLink(size, t)
    \/ \E size \in types, t \in DOMAIN ref : FreeHead(size, t)

\* two callers of Dummy blocks, each on its own thread with its own
\* pointer variable
Callers == {1, 2}
InitThreads == Constructor({DummySize}, Callers)

SpecThreads == InitThreads /\ [][NextThreads]_vars

----------------------------------------------------------------------------
\* a caller that constructs the MemoryManager with any of BlockCounts
InitBlockCounts == \E n \in BlockCounts : ConstructorWith(TypeSizes, OneRef, n)

SpecBlockCounts == InitBlockCounts /\ [][NextSizes]_vars

\* the same caller, which in the end destroys the MemoryManager
NextTeardown ==
    \/ \E size \in types, r \in DOMAIN ref : Allocate(size, r)
    \/ \E size \in types, r \in DOMAIN ref : Free(size, r)
    \/ Destroy

SpecTeardown == InitSizes /\ [][NextTeardown]_vars

----------------------------------------------------------------------------
(* Observations of the bookkeeping *)

\* a pool has been created for size
HasPool(size) == size \in DOMAIN mPool /\ mPool[size] # NULL

\* the free-list head of the pool of size, read where Allocate reads it
FreeListHead(size) ==
    ReadWord(mem, LastElementPtr(mPool[size], size, mNumBlocksPerPool))

\* address of block i of the pool of size
BlockAddress(size, i) == mPool[size] + i * size

\* the addresses of the blocks of the pool of size
Blocks(size) == {BlockAddress(size, i) : i \in 0..(mNumBlocksPerPool - 1)}

\* bit i of the allocation bitmap, most significant bit first
Bit(size, i) ==
    LET last == LastElementPtr(mPool[size], size, mNumBlocksPerPool)
        byte == mem[last + PtrSize + (i \div NUMBITSPERBYTE)]
    IN  IF BitSet(byte, NUMBITSPERBYTE - (i % NUMBITSPERBYTE) - 1) THEN 1 ELSE 0

\* the slot in which InitializePool stored the address of block 0 of the
\* pool of size: where its loop ends, one stride on
InitHeadSlot(size) ==
    LinkBlocks(EmptyMap, mPool[size], Stride(size), 1, mNumBlocksPerPool % 65536).cur
        + PtrSize * Stride(size)

\* the bit of the allocation bitmap that stands for the block at address p
BitOf(size, p) == Bit(size, (p - mPool[size]) \div size)

\* the addresses reached from a by following at most k next-links
RECURSIVE Chain(_, _)
Chain(a, k) ==
    IF a = NULL \/ k = 0 \/ ~Tracked(mem, a, PtrSize) THEN {}
    ELSE {a} \cup Chain(ReadWord(mem, a), k - 1)

FreeList(size) == Chain(FreeListHead(size), mNumBlocksPerPool + 1)

\* the bytes the pool of size was given by new char[]
Region(size) ==
    mPool[size]..(mPool[size] + RegionBytes(size, mNumBlocksPerPool % 65536) - 1)

\* p is not the address of a byte of a block of the pool of size
OutOfRange(size, p) ==
    \/ p < mPool[size]
    \/ (p - mPool[size]) \div size >= mNumBlocksPerPool

\* the addresses Allocate has returned for size since construction, while
\* only Allocate has been called
Returned(size) == IF size \in DOMAIN got THEN Range(got[size]) ELSE {}

\* base addresses of the regions reserved with new char[] and not released
Reserved == {a \in DOMAIN mem : (a - 1) \notin DOMAIN mem}

----------------------------------------------------------------------------
(* Properties *)

\* C1  Exhaustion: while only Allocate has been called since construction,
\* the first mNumBlocksPerPool calls for a size class return non-null,
\* pairwise distinct addresses and every later call returns null.
Exhaustion ==
    onlyAllocs =>
        \A s \in types :
            \A i \in 1..Len(got[s]) :
                IF i <= mNumBlocksPerPool
                THEN /\ got[s][i] # NULL
                     /\ \A j \in 1..(i - 1) : got[s][j] # got[s][i]
                ELSE got[s][i] = NULL

\* both pools (the default one and the lazily created one) were emptied and
\* asked twice more
ExhaustionWitness ==
    /\ onlyAllocs
    /\ status = "running"
    /\ \A s \in TypeSizes : types = TypeSizes /\ Len(got[s]) = mNumBlocksPerPool + 2

\* C2  Double free is a no-op: Free of an address that was freed and not
\* handed out again since is rejected as a double free and changes neither
\* the registry, nor any byte of any pool, nor the caller's pointer.
DoubleFreeNoOp ==
    [][\A s \in types, r \in DOMAIN ref :
          (ref[r] \in Range(freed[s]) /\ Free(s, r)) =>
              /\ lastCall'[s].path = "double"
              /\ mem' = mem
              /\ mPool' = mPool
              /\ ref' = ref
              /\ status' = status]_vars

DoubleFreeWitness ==
    /\ lastCall[DummySize].path = "double"
    /\ lastCall[DummySize].arg \in Range(freed[DummySize])

\* C3  Free-list/bitmap agreement: block i of every pool is either on the
\* free list with bit i clear, or off the free list with bit i set.
FreeListBitmapAgree ==
    status = "running" =>
        \A s \in DOMAIN mPool :
            HasPool(s) =>
                \A i \in 0..(mNumBlocksPerPool - 1) :
                    \/ BlockAddress(s, i) \in FreeList(s) /\ Bit(s, i) = 0
                    \/ BlockAddress(s, i) \notin FreeList(s) /\ Bit(s, i) = 1

\* C4  LIFO reuse: when the latest call for a size class was a successful
\* Free of A, Allocate for that size class returns A.
LifoReuse ==
    [][\A s \in types, r \in DOMAIN ref :
          (/\ lastCall[s].op = "Free"
           /\ lastCall[s].path = "freed"
           /\ Allocate(s, r)) =>
              /\ lastCall'[s].path = "allocated"
              /\ ref'[r] = lastCall[s].arg]_vars

LifoReuseWitness ==
    /\ lastCall[DummySize].op = "Allocate"
    /\ lastCall[DummySize].prev = "freed"
    /\ lastCall[DummySize].path = "allocated"
    /\ ref[lastCall[DummySize].ref] = lastCall[DummySize].ret

\* C5  Free of a non-null address for a size class that has no pool is
\* reported as an error: it touches no memory and leaves the registry and
\* every pool as they are.
UnknownSizeClassRejected ==
    [][\A s \in types, r \in DOMAIN ref :
          (s \notin DOMAIN mPool /\ ref[r] # NULL /\ Free(s, r)) =>
              /\ status' = "running"
              /\ mPool' = mPool
              /\ mem' = mem]_vars

\* C6  Free of a non-null address outside the blocks of the pool of its
\* size class is rejected and changes no memory.
OutOfRangeRejected ==
    [][\A s \in types, r \in DOMAIN ref :
          (HasPool(s) /\ ref[r] # NULL /\ OutOfRange(s, ref[r]) /\ Free(s, r)) =>
              /\ status' = "running"
              /\ lastCall'[s].path # "freed"
              /\ mem' = mem
              /\ ref' = ref]_vars

\* C7  Nulling on free: a successful Free leaves the caller's pointer null,
\* a Free rejected as a double free leaves it as it was.
NullingOnFree ==
    [][\A s \in types, r \in DOMAIN ref :
          Free(s, r) =>
              /\ lastCall'[s].path = "freed" => ref'[r] = NULL
              /\ lastCall'[s].path = "double" => ref'[r] = ref[r] /\ ref[r] # NULL]_vars

NullingOnFreeWitness ==
    /\ lastCall[DummySize].op = "Free"
    /\ lastCall[DummySize].path = "freed"
    /\ lastCall[DummySize].arg # NULL
    /\ ref[lastCall[DummySize].ref] = NULL

\* C8  Free(null) returns at once for every size class, with or without a
\* pool: registry, heap, pools and pointers stay as they are.
FreeNullNoEffect ==
    [][\A s \in types, r \in DOMAIN ref :
          (ref[r] = NULL /\ Free(s, r)) =>
              /\ lastCall'[s].path = "null"
              /\ status' = status
              /\ mPool' = mPool
              /\ mem' = mem
              /\ heapTop' = heapTop
              /\ ref' = ref]_vars

\* Free(null) was called for the size class that has no pool
FreeNullWitness ==
    /\ lastCall[OtherSize].op = "Free"
    /\ lastCall[OtherSize].path = "null"
    /\ OtherSize \notin DOMAIN mPool

\* C9  Exhausted Allocate changes nothing: with a null free-list head,
\* Allocate returns null and leaves the registry and every byte as they are.
ExhaustedNoChange ==
    [][\A s \in types, r \in DOMAIN ref :
          (HasPool(s) /\ FreeListHead(s) = NULL /\ Allocate(s, r)) =>
              /\ ref'[r] = NULL
              /\ lastCall'[s].path = "exhausted"
              /\ status' = status
              /\ mPool' = mPool
              /\ mem' = mem
              /\ heapTop' = heapTop]_vars

ExhaustedWitness ==
    /\ lastCall[DummySize].op = "Allocate"
    /\ lastCall[DummySize].path = "exhausted"
    /\ ref[lastCall[DummySize].ref] = NULL
    /\ FreeListHead(DummySize) = NULL

\* C10  Size-class independence: a call for size class s changes no byte of
\* the pool of another size class and neither adds nor removes another
\* size class's registry entry.
SizeClassIndependence ==
    [][\A s \in types, r \in DOMAIN ref :
          (Allocate(s, r) \/ Free(s, r)) =>
              /\ (DOMAIN mPool') \ {s} = (DOMAIN mPool) \ {s}
              /\ \A o \in (DOMAIN mPool) \ {s} :
                    /\ mPool'[o] = mPool[o]
                    /\ HasPool(o) => \A a \in Region(o) : mem'[a] = mem[a]]_vars

\* C11  Teardown releases each region exactly once: no region is released
\* while the MemoryManager lives, and its destruction gives every region
\* reserved so far (by the constructor or by a first Allocate of a size) to
\* delete[] exactly once and leaves no region reserved.
TeardownReleasesOnce ==
    [][/\ status # "destroyed" => released = EmptyMap
       /\ Destroy =>
             /\ DOMAIN released' = Reserved
             /\ \A b \in Reserved : released'[b] = 1
             /\ DOMAIN mem' = {}]_vars

\* destroyed after a pool was created lazily and blocks were handed out
TeardownWitness ==
    /\ status = "destroyed"
    /\ Cardinality(DOMAIN released) = (MaxExponent - MinExponent + 1) + 1
    /\ \E r \in DOMAIN ref : ref[r] # NULL

\* C12  Construction leaves all blocks free: as long as only Allocate has
\* been called, the bitmap bit of every block of every pool (made by the
\* constructor or by a first Allocate) that no Allocate has returned is 0.
ConstructionLeavesBlocksFree ==
    (status = "running" /\ onlyAllocs) =>
        \A s \in DOMAIN mPool :
            HasPool(s) =>
                \A i \in 0..(mNumBlocksPerPool - 1) :
                    BlockAddress(s, i) \notin Returned(s) => Bit(s, i) = 0

\* C13  Free never creates a pool: no call to Free, whatever the pointer
\* and the size of the type, changes the set of keys of the registry.
FreeAddsNoEntry ==
    [][\A s \in types, r \in DOMAIN ref :
          Free(s, r) => DOMAIN mPool' = DOMAIN mPool]_vars

\* C14  Block addressing: in every pool, every address on the free list and
\* every address Allocate returns is region base + i * size, 0 <= i <
\* mNumBlocksPerPool, and two different addresses on the free list have
\* different indices (address - region base) / size.
BlockAddressing ==
    status # "crashed" =>
        \A s \in types :
            HasPool(s) =>
                /\ FreeList(s) \subseteq Blocks(s)
                /\ lastCall[s].path = "allocated" => lastCall[s].ret \in Blocks(s)
                /\ \A a, b \in FreeList(s) :
                      a # b => (a - mPool[s]) \div s # (b - mPool[s]) \div s

\* C15  Stack-order reallocation with one overflow: from an exhausted pool
\* on, Allocate returns the block freed latest among those freed and not
\* handed out again, and null when there is none; so after successful Frees
\* of a1 .. ak (and any rejected Frees) the next k calls return ak .. a1 and
\* the call after them returns null.
StackOrderReallocation ==
    [][\A s \in types, r \in DOMAIN ref :
          (lastCall'[s].op = "Allocate" /\ lastCall'[s].ref = r /\ Allocate(s, r)) =>
              IF freed[s] = <<>>
              THEN /\ lastCall'[s].path = "exhausted"
                   /\ ref'[r] = NULL
              ELSE /\ lastCall'[s].path = "allocated"
                   /\ ref'[r] = Head(freed[s])
                   /\ freed'[s] = Tail(freed[s])]_vars

\* blocks were freed and handed out again, to other pointer variables than
\* the ones that held them before, and the next Allocate returned null
StackOrderWitness ==
    /\ lastCall[DummySize].op = "Allocate"
    /\ lastCall[DummySize].path = "exhausted"
    /\ lastCall[DummySize].prev = "allocated"
    /\ freed[DummySize] = <<>>
    /\ \A i \in 0..(mNumBlocksPerPool - 2) :
          \E r \in DOMAIN ref : ref[r] = BlockAddress(DummySize, i + 1) /\ r = i + 1

\* C16  Free through a stale alias succeeds: Free through any pointer
\* variable d that holds the address of a block handed out and not freed
\* since (whichever variable it was handed out to) clears the block's bit,
\* makes the block the head of the free list and nulls d; every other
\* pointer variable, the owner's included, keeps its value.
FreeThroughAlias ==
    [][\A s \in types, d \in DOMAIN ref :
          \A a \in {ref[d]} :
              (/\ lastCall'[s].op = "Free" /\ lastCall'[s].ref = d
               /\ a # NULL
               /\ a \notin Range(freed[s])
               /\ Free(s, d)) =>
                  /\ lastCall'[s].path = "freed"
                  /\ BitOf(s, a) = 1
                  /\ BitOf(s, a)' = 0
                  /\ FreeListHead(s)' = a
                  /\ ref'[d] = NULL
                  /\ \A o \in (DOMAIN ref) \ {d} : ref'[o] = ref[o]]_vars

\* right after an Allocate a block was freed through one pointer variable
\* while another one still holds its address
FreeThroughAliasWitness ==
    /\ lastCall[DummySize].op = "Free"
    /\ lastCall[DummySize].path = "freed"
    /\ lastCall[DummySize].prev = "allocated"
    /\ ref[lastCall[DummySize].ref] = NULL
    /\ \E o \in DOMAIN ref : ref[o] = lastCall[DummySize].arg
    /\ FreeListHead(DummySize) = lastCall[DummySize].arg

\* C17  No block is handed out twice: Allocate never returns a block that
\* was handed out and not successfully freed since, and the bitmap bit of
\* the block it takes from the free list is 0 when it sets it.
NoBlockHandedOutTwice ==
    [][\A s \in types, r \in DOMAIN ref :
          \A h \in {FreeListHead(s)} :
              (/\ lastCall'[s].op = "Allocate" /\ lastCall'[s].ref = r
               /\ HasPool(s)
               /\ h # NULL
               /\ Allocate(s, r)) =>
                  /\ ref'[r] \notin held[s]
                  /\ BitOf(s, h) = 0]_vars

\* the first half alone: the block returned is not one handed out and not
\* freed since
ReturnedNotHeld ==
    [][\A s \in types, r \in DOMAIN ref :
          (/\ lastCall'[s].op = "Allocate" /\ lastCall'[s].ref = r
           /\ lastCall'[s].path = "allocated"
           /\ Allocate(s, r)) => ref'[r] \notin held[s]]_vars

\* C18  Allocate-then-Free is an exact inverse: in every state in which the
\* pool of a size has a free block, a successful Allocate followed at once
\* by a successful Free of the address it returned leaves every byte of the
\* pools (head slot, next-links, bitmap) as it was before the Allocate.
AllocateFreeInverse ==
    status = "running" =>
        \A s \in types :
            (HasPool(s) /\ FreeListHead(s) # NULL) =>
                \A a \in AllocateOutcomes(s) :
                    a.path = "allocated" =>
                        \A f \in {FreeCall(a.mPool, a.mem, mNumBlocksPerPool, s,
                                           a.ret, "zeros")} :
                            f.path = "freed" => f.mem = mem

\* the part of it that does not depend on the bitmap: the Free succeeds and
\* the head slot and every next-link are as before the Allocate
AllocateFreeRestoresList ==
    status = "running" =>
        \A s \in types :
            (HasPool(s) /\ FreeListHead(s) # NULL) =>
                \A a \in AllocateOutcomes(s) :
                    a.path = "allocated" =>
                        \A f \in {FreeCall(a.mPool, a.mem, mNumBlocksPerPool, s,
                                           a.ret, "zeros")} :
                            /\ f.path = "freed"
                            /\ \A x \in DOMAIN mem :
                                  x < LastElementPtr(mPool[s], s, mNumBlocksPerPool)
                                          + PtrSize
                                      => f.mem[x] = mem[x]

\* C19  No internal synchronization: a thread that has read the free-list
\* head in Allocate returns the block it read and stores the link it read
\* as the new head, and Free stores its block as the new head, whatever
\* other threads did to the head since the read; so two threads that both
\* hold the same head in Allocate are both returned that block.
Unsynchronized ==
    [][\A s \in types, t \in DOMAIN ref :
          /\ AllocatePop(s, t) =>
                /\ ref'[t] = thread[t].head
                /\ FreeListHead(s)' = thread[t].next
                /\ \A u \in (DOMAIN ref) \ {t} :
                      (thread[u].pc \in {"mark", "link", "pop"}
                         /\ thread[u].head = thread[t].head) =>
                            /\ thread'[u] = thread[u]
                            /\ ENABLED AllocatePop(s, u) \/ ENABLED AllocateMark(s, u)
                                  \/ ENABLED AllocateLink(s, u)
          /\ \A a \in {ref[t]} : FreeHead(s, t) => FreeListHead(s)' = a]_vars

\* two threads were returned the same block
SameBlockTwice ==
    \E t, u \in DOMAIN ref :
        /\ t # u
        /\ thread[t].pc = "idle"
        /\ thread[u].pc = "idle"
        /\ ref[t] # NULL
        /\ ref[t] = ref[u]

\* a block freed while another thread was in Allocate is lost: all threads
\* are in no call, the block's bit is clear and it is not on the free list
FreedBlockLost ==
    /\ \A t \in DOMAIN ref : thread[t].pc = "idle"
    /\ heapFill = 0
    /\ \E i \in 0..(mNumBlocksPerPool - 1) :
          /\ Bit(DummySize, i) = 0
          /\ BlockAddress(DummySize, i) \notin FreeList(DummySize)

\* C20  Head-slot agreement: for every pool, the slot Allocate and Free use
\* as the free-list head is the slot in which InitializePool stored the
\* address of block 0, and it lies inside the region reserved for the pool.
HeadSlotAgreement ==
    \A s \in DOMAIN mPool :
        HasPool(s) =>
            /\ HeadSlot(s) = InitHeadSlot(s)
            /\ \A k \in 0..(PtrSize - 1) : (HeadSlot(s) + k) \in Region(s)

====
